---------------------------- MODULE Spec2Model ----------------------------
(***************************************************************************)
(* AppHistory (src/src/app-history.ts): the serialized transition engine.  *)
(*                                                                         *)
(* Every accepted request creates exactly one AppHistoryEntry (its target) *)
(* and one link of the #activePromise chain, so a request, its entry and   *)
(* its finished promise share one identifier r \in 1..MaxReq.              *)
(* A coroutine (async function) is modelled by a program counter per       *)
(* request; one action is the code between two awaits.  sync names the     *)
(* request whose coroutine is running and has not reached an await yet:    *)
(* nothing else can run until it does.                                     *)
(*                                                                         *)
(* NavigationTransition (src/src/navigation-transition.ts): the transition *)
(* object with its committed and finished deferreds, its set of promises   *)
(* and its rejection policy.  app-history.ts does not construct one, so    *)
(* the two classes run side by side: an AppHistory step is taken only      *)
(* while no NavigationTransition is constructed, and the other way round.  *)
(*                                                                         *)
(* A holder of a transition object may call its rollback after the         *)
(* transition settled, #dispose is suspended after every entry it          *)
(* notifies, and a NavigationTransitionFinish is suspended after every     *)
(* listener of its finish event; each of these is a step of its own.       *)
(*                                                                         *)
(* SpecAwait adds what a caller can do with the promises and objects of    *)
(* the instance itself: hand the finished promise of a queued request to   *)
(* transitionWhile, and await the transition object (#createActiveThen).   *)
(* SpecAwaitFair adds the fairness of the event loop to it.                *)
(***************************************************************************)
EXTENDS Integers, Sequences, FiniteSets, TLC

\* ------------------------------------------------------------- bounds ---
MaxReq == 4      \* requests accepted over the life of the instance
MaxAny == 3      \* requests that may be of any operation and may be made
                 \* while another is pending: those accepted after them
                 \* are calls of navigate and forward made when none is
                 \* pending
MaxPending == 2  \* requests accepted and not settled at any one time
MaxSubs == 1     \* promises handed to transitionWhile over that life
MaxThrows == 1   \* notifications during which a listener throws
MaxWhile == 2    \* promises handed to a NavigationTransition
MaxWait == 2     \* calls of NavigationTransitionWait, nested ones included
MaxWaiting == 1  \* calls of NavigationTransitionWait that have not returned
                 \* when a holder makes another
MaxHeld == 1     \* calls a holder of the NavigationTransition makes of its
                 \* rollback, NavigationTransitionFinish,
                 \* NavigationTransitionRejected and
                 \* NavigationTransitionPromiseResolved
Urls == << "/a", "/b", "/c", "/d", "/e", "/f" >>

Reqs == 1..MaxReq
Subs == 1..MaxSubs
Whiles == 1..MaxWhile
Waits == 1..MaxWait

\* --------------------------------------------------------- vocabulary ---
StringTypes == {"push", "replace", "traverse", "reload"}
SymbolTypes == {"UpdateCurrent", "Rollback", "Unset"}
IsString(t) == t \in StringTypes

NoOptions == [has |-> FALSE, entries |-> << >>, index |-> -1, known |-> 0]
NoSnapshot == [current |-> 0, entries |-> << >>, index |-> -1, known |-> 0]
NoResult == [ok |-> FALSE, entries |-> << >>, index |-> -1, known |-> << >>]
NoStart == [entries |-> << >>, index |-> -1, known |-> << >>]
NoRequest == [type |-> "none", key |-> 0, url |-> "",
              sameDocument |-> FALSE, options |-> NoOptions, after |-> 0]

\* navigation types a NavigationTransition is constructed with: one string
\* type stands for the four, which its code does not tell apart
TransitionTypes == {"push", "Rollback", "Unset"}
\* reasons a rejection comes with: InvalidStateError, AbortError, any other
Reasons == {"invalid", "abort", "app"}
NoFrame == [pc |-> "none", captured |-> {}, left |-> << >>]
NoAwaiter == [pc |-> "none", on |-> 0]

\* field initialisers and constructor of NavigationTransition
NewTransition(type) ==
    [navigationType |-> type,
     isCommitted |-> FALSE, isFinished |-> FALSE,
     isRejected |-> FALSE, isOngoing |-> FALSE,
     promises |-> {},            \* #promises: the status promises, by number
     rolledBack |-> FALSE,       \* #rolledBack
     aborted |-> FALSE,          \* #abortController.signal.aborted
     committed |-> "pending",    \* outcome of the committed deferred
     finished |-> "pending",     \* outcome of the finished deferred
     commitOnce |-> TRUE,           \* #onCommitPromise is attached (once)
     commitPropertyOnce |-> TRUE,   \* #onCommitSetProperty is attached (once)
     finishOnce |-> TRUE,           \* #onFinishPromise is attached (once)
     finishPropertyOnce |-> TRUE,   \* #onFinishSetProperty is attached (once)
     errorOnce |-> TRUE,         \* the once-listener of the error event is attached
     nwhile |-> 0,               \* promises handed to NavigationTransitionWhile
     status |-> [s \in Whiles |-> "none"],   \* per promise: its statusPromise,
                                 \* and where its catch handler is
     reason |-> "none",          \* reason the rejection body runs with
     rejected |-> "idle",        \* where the rejection body is suspended
     rejectedBy |-> 0,           \* statusPromise whose catch handler awaits that body
     rejections |-> 0,           \* times the rejection body went past its guard
     rollbackFinished |-> "none",   \* finished promise of the result of options.rollback
     nwait |-> 0,                \* calls of NavigationTransitionWait
     wait |-> [w \in Waits |-> NoFrame],     \* per call: where it is suspended
     nheld |-> 0,                \* calls made by a holder of the transition
     finishCall |-> NoFrame,     \* where a holder's call of NavigationTransitionFinish
                                 \* is suspended
     abortEvents |-> 0,          \* abort events dispatched
     finishEvents |-> 0,         \* finish events dispatched
     events |-> << >>]           \* navigateerror dispatches and options.rollback,
                                 \* called and completed, in order
NotConstructed == NewTransition("none")

VARIABLES
    transitionInProgressCount,   \* #transitionInProgressCount
    entries,                     \* #entries: sequence of entry ids
    known,                       \* #known: the Set object it refers to
    heap,                        \* contents of every Set object, in insertion order
    currentIndex,                \* #currentIndex (0-based, -1 when there is none)
    activePromise,               \* #activePromise: request whose finished promise is the tail
    activeTransition,            \* #activeTransition: request whose currentTransition it is
    inProgressAbortController,   \* #inProgressAbortController: request that created it
    nreq,                        \* number of accepted requests
    reqs,                        \* per request: operation, type, entry fields, options
    pc,                          \* per request: where its coroutine is suspended
    err,                         \* per request: error travelling to the catch block
    promises,                    \* per request: the promises array of #transition
    captured,                    \* per request: capturedPromises being awaited
    result,                      \* per request: transitionResult
    snap,                        \* per request: snapshot taken by #createRollback in #transition
    transitions,                 \* requests whose transition object the getter
                                 \* transition has exposed
    aborted,                     \* per request: state of its AbortController
    finished,                    \* per request: state of the finished promise
    committed,                   \* per request: state of the committed promise
    nsub,                        \* number of promises handed to transitionWhile
    subs,                        \* state of each such promise
    sync,                        \* request running synchronously (0: none)
    log,                         \* notifications, and the mutation, of the transition in progress
    nthrow,                      \* notifications during which a listener threw
    mutations,                   \* requests in the order their mutation was applied
    disposeCount,                \* per entry: dispose notifications received
    atStart,                     \* entries, index and members of #known when the
                                 \* transition in progress took its snapshot
    awaiter,                     \* the coroutine of the then of a transition
                                 \* object: where it is, the promise it awaits
    nt                           \* the NavigationTransition: its fields, its
                                 \* deferreds and the position of its coroutines

appVars == << transitionInProgressCount, entries, known, heap, currentIndex,
              activePromise, activeTransition, inProgressAbortController,
              nreq, reqs, pc, err, promises, captured, result, snap, transitions,
              aborted, finished, committed, nsub, subs, sync, log, nthrow, mutations,
              disposeCount, atStart, awaiter >>
vars == << appVars, nt >>

navigatorVars == << entries, known, heap, currentIndex, mutations >>
requestVars == << nreq, reqs, activePromise, committed, transitions >>
subVars == << nsub, subs >>
quietVars == << nsub, subs, nthrow >>
Pending == Cardinality({ r \in Reqs : finished[r] = "pending" })

\* a step of AppHistory: no NavigationTransition is involved, and the
\* coroutine of a then stays where it is
Constructed == nt.navigationType # "none"
appHistoryStep == ~Constructed /\ UNCHANGED << nt, awaiter >>

\* ------------------------------------------------------------ helpers ---
Key(e) == reqs[e].key
Url(e) == reqs[e].url
Range(s) == { s[i] : i \in 1..Len(s) }
Keys(s) == { Key(s[i]) : i \in 1..Len(s) }
Min(S) == CHOOSE x \in S : \A y \in S : x <= y

\* Array.prototype.findIndex(entry => entry.key === k), 0-based, -1 when absent
KeyIndex(s, k) ==
    LET hits == { i \in 1..Len(s) : Key(s[i]) = k }
    IN  IF hits = {} THEN -1 ELSE Min(hits) - 1

RECURSIVE SetUnion(_, _)
\* new Set([...a, ...b]): insertion order, no duplicates
SetUnion(a, b) ==
    IF b = << >> THEN a
    ELSE SetUnion(IF Head(b) \in Range(a) THEN a ELSE Append(a, Head(b)), Tail(b))

Settled(r) == finished[r] # "pending"

\* ------------------------------------------------------------ getters ---
\* canGoBack without the look at entries[currentIndex - 1]
canGoBackUnchecked == currentIndex # 0

canGoBack ==
    IF currentIndex = 0 THEN FALSE
    ELSE (currentIndex - 1) \in 0..(Len(entries) - 1)

canGoForward ==
    IF currentIndex = -1 THEN FALSE
    ELSE IF currentIndex = Len(entries) - 1 THEN FALSE
    ELSE (currentIndex + 1) \in 0..(Len(entries) - 1)

\* 0 stands for undefined
current ==
    IF currentIndex = -1 THEN 0
    ELSE IF (currentIndex + 1) \in 1..Len(entries) THEN entries[currentIndex + 1]
    ELSE 0

\* entries[i] of the code (0-based), 0 when out of range
EntryAt(i) == IF (i + 1) \in 1..Len(entries) THEN entries[i + 1] ELSE 0

\* a clone that takes the key of entry e and not its url
cloneWithoutUrl(e, id) ==
    [key |-> IF e = 0 THEN id ELSE Key(e),
     url |-> "",
     sameDocument |-> IF e = 0 THEN TRUE ELSE reqs[e].sameDocument]

\* the key and url a clone of entry e gets when it is created as entry id
cloneAppHistoryEntry(e, id) ==
    [key |-> IF e = 0 THEN id ELSE Key(e),
     url |-> IF e = 0 THEN "" ELSE Url(e),
     sameDocument |-> IF e = 0 THEN TRUE ELSE reqs[e].sameDocument]

\* the checks of #pushEntry: TRUE when it throws InvalidStateError
pushEntryThrows(id) ==
    \/ id = current
    \/ \E i \in 1..Len(entries) : entries[i] = id

\* ------------------------------------- createAppHistoryTransition -------
\* The entry list, index and known entries a transition of the given type
\* computes for entry e; ok is FALSE when no destination index resolves.
createAppHistoryTransition(type, e, options) ==
    LET k == heap[known]
        at == KeyIndex(entries, Key(e))
        pushed == [ok |-> TRUE,
                   entries |-> Append(SubSeq(entries, 1, currentIndex + 1), e),
                   index |-> currentIndex + 1,
                   known |-> SetUnion(k, << e >>)]
    IN  CASE type = "Rollback" ->
               [ok |-> options.has,
                entries |-> options.entries,
                index |-> options.index,
                known |-> SetUnion(k, heap[options.known])]
          [] type \in {"traverse", "reload"} ->
               IF at = -1 THEN NoResult
               ELSE [ok |-> TRUE,
                     entries |-> [entries EXCEPT ![at + 1] = e],
                     index |-> at,
                     known |-> SetUnion(k, << e >>)]
          [] type = "UpdateCurrent" ->
               IF at = -1 THEN NoResult
               ELSE [ok |-> TRUE,
                     entries |-> [entries EXCEPT ![at + 1] = e],
                     index |-> currentIndex,
                     known |-> SetUnion(k, << e >>)]
          [] type = "replace" ->
               IF currentIndex = -1 THEN pushed
               ELSE [ok |-> TRUE,
                     entries |-> [entries EXCEPT ![currentIndex + 1] = e],
                     index |-> currentIndex,
                     known |-> SetUnion(k, << e >>)]
          [] OTHER -> pushed

\* ------------------------------------------------------------ #dispose ---
\* a listener throws an error of its own ("throw"), an AbortError ("abort")
\* or an InvalidStateError ("invalid"), as a failed back() or forward() inside
\* it does
Throwing == {"throw", "abort", "invalid"}
Thrown(o) == IF o = "throw" THEN "app" ELSE o

\* #dispose without the findIndex test: every member of #known is dropped
everyKnown == heap[known]

\* the members of the Set #known whose key no entry of #entries carries,
\* in the order the for-of loop meets them
Unreachable ==
    SelectSeq(heap[known], LAMBDA e : Key(e) \notin Keys(entries))

\* the Set once the loop has deleted the first n of them
disposeKeeps(n) ==
    LET gone == Range(SubSeq(Unreachable, 1, n))
    IN  SelectSeq(heap[known], LAMBDA e : e \notin gone)

\* known.dispatchEvent(event): one more dispose event has reached entry e
notified(e) == [disposeCount EXCEPT ![e] = @ + 1]

\* the dispose event of entry e, dispatched at the entry ("dispose") or at
\* the navigator ("dispose@navigator")
disposeEvent(r, e, target) ==
    [req |-> r, ev |-> target, entry |-> e, member |-> e \in Range(entries)]

\* #dispose from the top of its loop to await known.dispatchEvent(event):
\* the next unreachable member of #known is deleted and notified at the
\* entry itself, where o is what its listeners do; with no such member left
\* the loop is over.
dispose(r, o) ==
    IF Unreachable = << >>
    THEN /\ o = "ok"
         /\ UNCHANGED << heap, log, disposeCount, nthrow >>
    ELSE LET e == Head(Unreachable) IN
         /\ o \in Throwing => nthrow < MaxThrows
         /\ heap' = [heap EXCEPT ![known] = disposeKeeps(1)]
         /\ log' = Append(log, disposeEvent(r, e, "dispose"))
         /\ disposeCount' = notified(e)
         /\ nthrow' = IF o \in Throwing THEN nthrow + 1 ELSE nthrow

\* #dispose from await known.dispatchEvent(event) to
\* await this.dispatchEvent(event): the same event at the navigator
disposeAtNavigator(r, o) ==
    /\ o \in Throwing => nthrow < MaxThrows
    /\ log' = Append(log, [log[Len(log)] EXCEPT !.ev = "dispose@navigator"])
    /\ nthrow' = IF o \in Throwing THEN nthrow + 1 ELSE nthrow
    /\ UNCHANGED << heap, disposeCount >>

\* ---------------------------------------------------------------- Init ---
Init ==
    /\ transitionInProgressCount = 0
    /\ entries = << >>
    /\ known = 0
    /\ heap = [h \in 0..MaxReq |-> << >>]
    /\ currentIndex = -1
    /\ activePromise = 0
    /\ activeTransition = 0
    /\ inProgressAbortController = 0
    /\ nreq = 0
    /\ reqs = [r \in Reqs |-> NoRequest]
    /\ pc = [r \in Reqs |-> "none"]
    /\ err = [r \in Reqs |-> "none"]
    /\ promises = [r \in Reqs |-> << >>]
    /\ captured = [r \in Reqs |-> << >>]
    /\ result = [r \in Reqs |-> NoResult]
    /\ snap = [r \in Reqs |-> NoSnapshot]
    /\ transitions = {}
    /\ aborted = [r \in Reqs |-> FALSE]
    /\ finished = [r \in Reqs |-> "none"]
    /\ committed = [r \in Reqs |-> "none"]
    /\ nsub = 0
    /\ subs = [s \in Subs |-> "none"]
    /\ sync = 0
    /\ log = << >>
    /\ nthrow = 0
    /\ mutations = << >>
    /\ disposeCount = [e \in Reqs |-> 0]
    /\ atStart = NoStart
    /\ awaiter = NoAwaiter
    /\ nt = NotConstructed

\* ------------------------------------------------- accepting a request ---
\* the promise the new link is chained on: #activePromise ?? Promise.resolve(entry)
chainedOn == activePromise

\* AbortController.abort() on #inProgressAbortController, unless the request
\* is an updateCurrent
abortInProgress(type) ==
    IF type # "UpdateCurrent" /\ inProgressAbortController # 0
    THEN [aborted EXCEPT ![inProgressAbortController] = TRUE]
    ELSE aborted

\* #commitTransition leaving #activePromise as it was
staleTail(r) == activePromise

\* this.#activePromise = finished
newTail(r) == r

\* the committed promise of the returned AppHistoryResult
committedOnReturn == "fulfilled"

\* #commitTransition: chain the request on #activePromise, make it the tail,
\* abort the transition in progress and return { committed, finished }
commitTransition(type, e, options) ==
    LET r == nreq + 1 IN
    /\ nreq' = r
    /\ reqs' = [reqs EXCEPT ![r] =
                  [type |-> type, key |-> e.key, url |-> e.url,
                   sameDocument |-> e.sameDocument, options |-> options,
                   after |-> chainedOn]]
    /\ activePromise' = newTail(r)
    /\ pc' = [pc EXCEPT ![r] = "queued"]
    /\ finished' = [finished EXCEPT ![r] = "pending"]
    /\ committed' = [committed EXCEPT ![r] = committedOnReturn]
    /\ aborted' = abortInProgress(type)
    /\ UNCHANGED << transitionInProgressCount, navigatorVars, activeTransition,
                    inProgressAbortController, err, promises, captured, result,
                    snap, transitions, quietVars, sync, log, disposeCount,
                    atStart >>

\* #pushEntry
pushEntry(type, e, options) ==
    /\ ~pushEntryThrows(nreq + 1)
    /\ commitTransition(type, e, options)

\* a public method may be called whenever no coroutine is running
Callable == sync = 0 /\ nreq < MaxReq /\ Pending < MaxPending

\* the same for an operation other than navigate and forward, and for these
CallableAny == nreq < MaxAny /\ Callable
CallableLate == Callable /\ (nreq >= MaxAny => Pending = 0)

navigate(url, replace) ==
    /\ appHistoryStep
    /\ CallableLate
    /\ pushEntry(IF replace THEN "replace" ELSE "push",
                 [key |-> nreq + 1, url |-> url, sameDocument |-> TRUE],
                 NoOptions)

back ==
    /\ appHistoryStep
    /\ CallableAny
    /\ canGoBack
    /\ pushEntry("traverse",
                 cloneAppHistoryEntry(EntryAt(currentIndex - 1), nreq + 1), NoOptions)

forward ==
    /\ appHistoryStep
    /\ CallableLate
    /\ canGoForward
    /\ pushEntry("traverse",
                 cloneAppHistoryEntry(EntryAt(currentIndex + 1), nreq + 1), NoOptions)

\* entries.find(entry => entry.key === key)
found(key) ==
    LET i == KeyIndex(entries, key)
    IN  IF i = -1 THEN 0 ELSE EntryAt(i)

goTo(key) ==
    /\ appHistoryStep
    /\ CallableAny
    /\ found(key) # 0
    /\ pushEntry("traverse", cloneAppHistoryEntry(found(key), nreq + 1),
                 NoOptions)

reload ==
    /\ appHistoryStep
    /\ CallableAny
    /\ current # 0
    /\ pushEntry("reload", cloneAppHistoryEntry(current, nreq + 1),
                 NoOptions)

updateCurrent ==
    /\ appHistoryStep
    /\ CallableAny
    /\ pushEntry("UpdateCurrent",
                 cloneAppHistoryEntry(current, nreq + 1), NoOptions)

\* The function #createRollback returns, called on a transition object that
\* AppHistory.transition has exposed, in progress or over: it queues a
\* Rollback of the snapshot the object closed over, or an Unset when the
\* snapshot has no current entry.
rollback(q) ==
    /\ appHistoryStep
    /\ CallableAny
    /\ q \in transitions
    /\ LET s == snap[q]
           options == [has |-> TRUE, entries |-> s.entries, index |-> s.index,
                       known |-> s.known]
       IN  IF s.current # 0
           THEN pushEntry("Rollback",
                          cloneAppHistoryEntry(s.current, nreq + 1), options)
           ELSE pushEntry("Unset",
                          [key |-> nreq + 1, url |-> "", sameDocument |-> TRUE],
                          options)

\* the calls that throw InvalidStateError before anything is created
Throws(op, key) ==
    CASE op = "back" -> ~canGoBack
      [] op = "forward" -> ~canGoForward
      [] op = "goTo" -> found(key) = 0
      [] op = "reload" -> current = 0
      [] OTHER -> FALSE

throwInvalidState(op, key) ==
    /\ appHistoryStep
    /\ sync = 0
    /\ Throws(op, key)
    /\ UNCHANGED vars

\* the calls that throw in the present state
InvalidCalls ==
    { c \in { [op |-> o, key |-> 0] : o \in {"back", "forward", "reload"} }
             \cup { [op |-> "goTo", key |-> k] : k \in Reqs } :
        Throws(c.op, c.key) }

\* a call that throws: each of them leaves every variable as it is, so one
\* step stands for them all
invalidCall ==
    /\ ~Constructed /\ sync = 0
    /\ LET calls == InvalidCalls
       IN  /\ calls # {}
           /\ LET c == CHOOSE c \in calls : TRUE
               IN  throwInvalidState(c.op, c.key)

\* ------------------------------------------------ running a transition ---
Type(r) == reqs[r].type

\* transitionWhile without its look at the signal
transitionWhileNeverThrows(r) == FALSE

\* transitionWhile throws once the transition's signal is aborted
transitionWhileThrows(r) == aborted[r]

\* What the listeners of one notification may do: return, throw, or hand a
\* new promise to transitionWhile.  "skip" is the case where the code
\* dispatches nothing.
Listeners(r, dispatches, offersWhile) ==
    IF ~dispatches THEN {"skip"}
    ELSE {"ok"} \cup
         (IF nthrow < MaxThrows THEN Throwing ELSE {}) \cup
         (IF offersWhile /\ (transitionWhileThrows(r) \/ nsub < MaxSubs)
          THEN {"while"} ELSE {})

\* Dispatch notification ev of request r to target and go on at next, or at
\* the catch block when a listener throws.  awaits tells whether the code
\* awaits at this point even when it dispatches nothing; seen is what the
\* log holds when the notification is dispatched.
notify(r, seen, ev, target, o, next, awaits) ==
    /\ log' = IF o = "skip" THEN seen
              ELSE Append(seen, [req |-> r, ev |-> ev, entry |-> target,
                                 member |-> TRUE])
    /\ pc' = [pc EXCEPT ![r] =
                IF o \in Throwing \/ (o = "while" /\ transitionWhileThrows(r))
                THEN "catch" ELSE next]
    /\ err' = [err EXCEPT ![r] =
                IF o \in Throwing THEN Thrown(o)
                ELSE IF o = "while" /\ transitionWhileThrows(r) THEN "invalid"
                ELSE @]
    /\ IF o = "while" /\ ~transitionWhileThrows(r)
       THEN /\ nsub' = nsub + 1
            /\ subs' = [subs EXCEPT ![nsub + 1] = "pending"]
            /\ promises' = [promises EXCEPT ![r] = Append(@, nsub + 1)]
       ELSE UNCHANGED << nsub, subs, promises >>
    /\ nthrow' = IF o \in Throwing THEN nthrow + 1 ELSE nthrow
    /\ sync' = IF o = "skip" /\ ~awaits THEN r ELSE 0

\* throw e inside completeTransition
throw(r, e) ==
    /\ pc' = [pc EXCEPT ![r] = "catch"]
    /\ err' = [err EXCEPT ![r] = e]
    /\ sync' = 0

\* the chain link without its .catch: a rejection of the promise it is
\* chained on passes through .then and the callback is not run
chainLinkPropagates(after) == after = 0 \/ finished[after] # "rejected"

\* the chain link .catch(error => void error).then(...) runs its callback
\* whatever the outcome of the promise it is chained on
chainLinkRuns(after) == TRUE

\* a callback run without waiting for the promise it is chained on
chainNotAwaited(r) == TRUE

\* a .then callback runs once the promise it is chained on has settled
chainReady(r) == reqs[r].after # 0 => Settled(reqs[r].after)

\* The callback of the chain link: #immediateTransition up to its check
startTransition(r) ==
    /\ pc[r] = "queued"
    /\ sync = 0
    /\ appHistoryStep
    /\ chainReady(r)
    /\ IF chainLinkRuns(reqs[r].after)
       THEN /\ transitionInProgressCount' = transitionInProgressCount + 1
            /\ pc' = [pc EXCEPT ![r] = "entered"]
            /\ sync' = r
            /\ UNCHANGED << finished, err >>
       ELSE /\ finished' = [finished EXCEPT ![r] = "rejected"]
            /\ pc' = [pc EXCEPT ![r] = "skipped"]
            /\ err' = [err EXCEPT ![r] = err[reqs[r].after]]
            /\ UNCHANGED << transitionInProgressCount, sync >>
    /\ UNCHANGED << navigatorVars, requestVars, activeTransition,
                    inProgressAbortController, promises, captured, result, snap,
                    aborted, quietVars, log, disposeCount, atStart >>

\* #immediateTransition: the counter check, then #transition up to
\* await getPerformance()
immediateTransition(r) ==
    /\ pc[r] = "entered"
    /\ sync = r
    /\ appHistoryStep
    /\ IF transitionInProgressCount > 1
       THEN /\ transitionInProgressCount' = transitionInProgressCount - 1
            /\ pc' = [pc EXCEPT ![r] = "settling"]
            /\ err' = [err EXCEPT ![r] = "multiple"]
       ELSE /\ pc' = [pc EXCEPT ![r] = "perf"]
            /\ UNCHANGED << transitionInProgressCount, err >>
    /\ UNCHANGED finished
    /\ sync' = 0
    /\ UNCHANGED << navigatorVars, requestVars, activeTransition,
                    inProgressAbortController, promises, captured, result, snap,
                    aborted, quietVars, log, disposeCount, atStart >>

\* the snapshot #createRollback closes over
createRollback ==
    [current |-> current, entries |-> entries, index |-> currentIndex,
     known |-> known]

\* #transition from current = this.current to the first await of
\* completeTransition: the restore of an Unset, or createAppHistoryTransition
transitionBegin(r) ==
    /\ pc[r] = "perf"
    /\ sync = 0
    /\ appHistoryStep
    \* a new AbortController replaces the one the field held, which nothing
    \* refers to any longer
    /\ aborted' = [q \in Reqs |-> FALSE]
    /\ inProgressAbortController' = r
    /\ snap' = [snap EXCEPT ![r] = createRollback]
    /\ atStart' = [entries |-> entries, index |-> currentIndex,
                   known |-> heap[known]]
    /\ IF Type(r) = "Unset" /\ reqs[r].options.has
       THEN /\ entries' = reqs[r].options.entries
            /\ currentIndex' = reqs[r].options.index
            /\ known' = r
            /\ heap' = [heap EXCEPT ![r] =
                          SetUnion(heap[known], heap[reqs[r].options.known])]
            /\ mutations' = Append(mutations, r)
            /\ pc' = [pc EXCEPT ![r] = "finally"]
            /\ UNCHANGED << result, err >>
       ELSE LET res == createAppHistoryTransition(Type(r), r, reqs[r].options)
            IN  /\ result' = [result EXCEPT ![r] = res]
                /\ pc' = [pc EXCEPT ![r] = IF res.ok THEN "created" ELSE "catch"]
                /\ err' = [err EXCEPT ![r] = IF res.ok THEN @ ELSE "invalid"]
                /\ UNCHANGED navigatorVars
    /\ sync' = 0
    /\ UNCHANGED << transitionInProgressCount, requestVars, activeTransition,
                    promises, captured, finished, quietVars, log, disposeCount >>

\* the first abort check, #activeTransition, and navigatefrom on the entry
\* that was current when the transition began
navigatefrom(r) ==
    /\ pc[r] = "created"
    /\ sync = 0
    /\ appHistoryStep
    /\ IF aborted[r]
       THEN /\ throw(r, "invalid")
            /\ UNCHANGED << activeTransition, transitions, log, promises,
                            quietVars >>
       ELSE /\ activeTransition' = IF IsString(Type(r)) THEN r ELSE activeTransition
            /\ transitions' = IF IsString(Type(r)) THEN transitions \cup {r}
                              ELSE transitions
            /\ \E o \in Listeners(r, (IsString(Type(r)) \/ Type(r) = "Rollback")
                                     /\ snap[r].current # 0, TRUE) :
                 notify(r, log, "navigatefrom", snap[r].current, o, "navigatefrom",
                        IsString(Type(r)) \/ Type(r) = "Rollback")
    /\ UNCHANGED << transitionInProgressCount, navigatorVars, nreq, reqs,
                    activePromise, committed, inProgressAbortController,
                    captured, result, snap, aborted, finished, disposeCount,
                    atStart >>

\* completeTransition without its navigate notification
neverDispatchesNavigate(r) == FALSE

\* if (typeof navigationType === "string") guards the navigate notification
dispatchesNavigate(r) == IsString(Type(r))

\* the navigate notification of a push, replace, traverse or reload
navigateEvent(r) ==
    /\ pc[r] = "navigatefrom"
    /\ sync \in {0, r}
    /\ appHistoryStep
    /\ \E o \in Listeners(r, dispatchesNavigate(r), TRUE) :
         notify(r, log, "navigate", 0, o, "navigate", FALSE)
    /\ UNCHANGED << transitionInProgressCount, navigatorVars, requestVars,
                    activeTransition, inProgressAbortController, captured,
                    result, snap, aborted, finished, disposeCount, atStart >>

\* an index one past the one the transition computed
assignIndexOffByOne(res) == res.index + 1

\* this.#currentIndex = index
assignIndex(res) == res.index

\* the log's record of the mutation of #known, #entries and #currentIndex
mutated(r) == [req |-> r, ev |-> "mutate", entry |-> r, member |-> TRUE]

\* the second abort check, the mutation of #known, #entries and
\* #currentIndex, and currentchange for a same-document entry
commitEntries(r) ==
    /\ pc[r] = "navigate"
    /\ sync \in {0, r}
    /\ appHistoryStep
    /\ IF aborted[r]
       THEN /\ throw(r, "invalid")
            /\ UNCHANGED << navigatorVars, log, promises, quietVars >>
       ELSE /\ known' = r
            /\ heap' = [heap EXCEPT ![r] = SetUnion(heap[known], result[r].known)]
            /\ entries' = result[r].entries
            /\ currentIndex' = assignIndex(result[r])
            /\ mutations' = Append(mutations, r)
            /\ \E o \in Listeners(r, reqs[r].sameDocument, FALSE) :
                 notify(r, Append(log, mutated(r)), "currentchange", 0, o,
                        "currentchange", FALSE)
    /\ UNCHANGED << transitionInProgressCount, requestVars, activeTransition,
                    inProgressAbortController, captured, result, snap, aborted,
                    finished, disposeCount, atStart >>

\* navigateto on the new entry
navigateto(r) ==
    /\ pc[r] = "currentchange"
    /\ sync \in {0, r}
    /\ appHistoryStep
    /\ \E o \in Listeners(r, IsString(Type(r)), TRUE) :
         notify(r, log, "navigateto", r, o, "navigateto", FALSE)
    /\ UNCHANGED << transitionInProgressCount, navigatorVars, requestVars,
                    activeTransition, inProgressAbortController, captured,
                    result, snap, aborted, finished, disposeCount, atStart >>

\* await this.#dispose() inside completeTransition: the loop of #dispose
\* from its top, entered from the call or from await this.dispatchEvent
disposeAfterCommit(r) ==
    /\ pc[r] \in {"navigateto", "dispose@navigator"}
    /\ sync \in {0, r}
    /\ appHistoryStep
    /\ \E o \in {"ok"} \cup Throwing :
         /\ dispose(r, o)
         /\ pc' = [pc EXCEPT ![r] =
                     IF o \in Throwing THEN "catch"
                     ELSE IF Unreachable = << >> THEN "disposed" ELSE "dispose"]
         /\ err' = [err EXCEPT ![r] = IF o \in Throwing THEN Thrown(o) ELSE @]
    /\ sync' = 0
    /\ UNCHANGED << transitionInProgressCount, entries, known, currentIndex,
                    mutations, requestVars, activeTransition,
                    inProgressAbortController, promises, captured, result, snap,
                    aborted, finished, subVars, atStart >>

\* the dispose event of the entry just deleted, at the navigator
disposeAfterCommitNavigator(r) ==
    /\ pc[r] = "dispose"
    /\ sync = 0
    /\ appHistoryStep
    /\ \E o \in {"ok"} \cup Throwing :
         /\ disposeAtNavigator(r, o)
         /\ pc' = [pc EXCEPT ![r] =
                     IF o \in Throwing THEN "catch" ELSE "dispose@navigator"]
         /\ err' = [err EXCEPT ![r] = IF o \in Throwing THEN Thrown(o) ELSE @]
    /\ UNCHANGED << transitionInProgressCount, entries, known, currentIndex,
                    mutations, requestVars, activeTransition,
                    inProgressAbortController, promises, captured, result, snap,
                    aborted, finished, subVars, sync, atStart >>

\* Promise.all over the captured promises
allFulfilled(r) == \A i \in 1..Len(captured[r]) : subs[captured[r][i]] = "fulfilled"
someRejected(r) == \E i \in 1..Len(captured[r]) : subs[captured[r][i]] = "rejected"
\* what Promise.all(capturedPromises) may reject with: an AbortError
\* ("abort"), an InvalidStateError ("invalid") or any other value ("app");
\* nothing reads the reason of a rejected promise before this point
Rejections == {"app", "abort", "invalid"}

\* capturedPromises = promises; promises = []
capture(r) ==
    /\ captured' = [captured EXCEPT ![r] = promises[r]]
    /\ promises' = [promises EXCEPT ![r] = << >>]

\* after #dispose: await the microtask when nothing was registered,
\* otherwise capture what was and await it
collectPromises(r) ==
    /\ pc[r] = "disposed"
    /\ sync = 0
    /\ appHistoryStep
    /\ IF promises[r] = << >>
       THEN /\ pc' = [pc EXCEPT ![r] = "microtask"]
            /\ UNCHANGED << promises, captured >>
       ELSE /\ pc' = [pc EXCEPT ![r] = "wait1"]
            /\ capture(r)
    /\ sync' = 0
    /\ UNCHANGED << transitionInProgressCount, navigatorVars, requestVars,
                    activeTransition, inProgressAbortController, err, result,
                    snap, aborted, finished, quietVars, log, disposeCount, atStart >>

\* after the microtask: capture and await what was registered meanwhile
afterMicrotask(r) ==
    /\ pc[r] = "microtask"
    /\ sync = 0
    /\ appHistoryStep
    /\ IF promises[r] = << >>
       THEN /\ pc' = [pc EXCEPT ![r] = "drained"]
            /\ sync' = r
            /\ UNCHANGED << promises, captured >>
       ELSE /\ pc' = [pc EXCEPT ![r] = "wait1"]
            /\ sync' = 0
            /\ capture(r)
    /\ UNCHANGED << transitionInProgressCount, navigatorVars, requestVars,
                    activeTransition, inProgressAbortController, err, result,
                    snap, aborted, finished, quietVars, log, disposeCount, atStart >>

\* await Promise.all(capturedPromises) is over: at "wait1" before finish,
\* at "wait2" before completeTransition returns
promisesSettled(r) ==
    /\ pc[r] \in {"wait1", "wait2"}
    /\ sync = 0
    /\ appHistoryStep
    /\ allFulfilled(r) \/ someRejected(r)
    /\ IF someRejected(r)
       THEN \E e \in Rejections : throw(r, e)
       ELSE /\ pc' = [pc EXCEPT ![r] = IF pc[r] = "wait1" THEN "drained" ELSE "finally"]
            /\ sync' = IF pc[r] = "wait1" THEN r ELSE 0
            /\ UNCHANGED err
    /\ UNCHANGED << transitionInProgressCount, navigatorVars, requestVars,
                    activeTransition, inProgressAbortController, promises,
                    captured, result, snap, aborted, finished, quietVars, log,
                    disposeCount, atStart >>

\* finish on the new entry
finishEvent(r) ==
    /\ pc[r] = "drained"
    /\ sync = r
    /\ appHistoryStep
    /\ \E o \in Listeners(r, IsString(Type(r)), TRUE) :
         notify(r, log, "finish", r, o, "finish", FALSE)
    /\ UNCHANGED << transitionInProgressCount, navigatorVars, requestVars,
                    activeTransition, inProgressAbortController, captured,
                    result, snap, aborted, finished, disposeCount, atStart >>

\* navigatesuccess on the navigator
navigatesuccess(r) ==
    /\ pc[r] = "finish"
    /\ sync \in {0, r}
    /\ appHistoryStep
    /\ \E o \in Listeners(r, IsString(Type(r)), TRUE) :
         notify(r, log, "navigatesuccess", 0, o, "navigatesuccess", FALSE)
    /\ UNCHANGED << transitionInProgressCount, navigatorVars, requestVars,
                    activeTransition, inProgressAbortController, captured,
                    result, snap, aborted, finished, disposeCount, atStart >>

\* the promises registered since the first capture are captured and awaited
\* once more; with none left completeTransition returns the entry
collectMore(r) ==
    /\ pc[r] = "navigatesuccess"
    /\ sync \in {0, r}
    /\ appHistoryStep
    /\ IF promises[r] = << >>
       THEN /\ pc' = [pc EXCEPT ![r] = "finally"]
            /\ UNCHANGED << promises, captured >>
       ELSE /\ pc' = [pc EXCEPT ![r] = "wait2"]
            /\ capture(r)
    /\ sync' = 0
    /\ UNCHANGED << transitionInProgressCount, navigatorVars, requestVars,
                    activeTransition, inProgressAbortController, err, result,
                    snap, aborted, finished, quietVars, log, disposeCount, atStart >>

\* the catch block asks for a rollback and a navigateerror unless the error
\* is an InvalidStateError or the transition is not one the caller asked for
reportsError(r) ==
    err[r] # "invalid" /\ (IsString(Type(r)) \/ Type(r) = "Rollback")

\* rollbackImmediately is #createRollback(this.#transition) with no
\* transition argument: the #transition it calls rejects at once with
\* InvalidStateError("Expected transition"), #createRollback swallows the
\* rejection, and the state of the navigator stays as it is.
rollbackImmediately(r) ==
    [entries |-> entries, currentIndex |-> currentIndex, known |-> known,
     heap |-> heap]

\* the catch block up to await rollbackImmediately()
catchError(r) ==
    /\ pc[r] = "catch"
    /\ sync = 0
    /\ appHistoryStep
    /\ pc' = [pc EXCEPT ![r] =
                IF reportsError(r) THEN "rollback" ELSE "finally"]
    /\ IF reportsError(r) /\ Type(r) # "Rollback"
       THEN /\ entries' = rollbackImmediately(r).entries
            /\ currentIndex' = rollbackImmediately(r).currentIndex
            /\ known' = rollbackImmediately(r).known
            /\ heap' = rollbackImmediately(r).heap
            /\ UNCHANGED mutations
            /\ log' = Append(log, [req |-> r, ev |-> "rollbackImmediately",
                                   entry |-> 0, member |-> TRUE])
       ELSE UNCHANGED << navigatorVars, log >>
    /\ UNCHANGED << transitionInProgressCount, requestVars, activeTransition,
                    inProgressAbortController, err, promises, captured, result,
                    snap, aborted, finished, quietVars, sync, disposeCount, atStart >>

\* navigateerror on the navigator, then the error is thrown again
navigateerror(r) ==
    /\ pc[r] = "rollback"
    /\ sync = 0
    /\ appHistoryStep
    /\ \E o \in Listeners(r, TRUE, FALSE) :
         /\ log' = Append(log, [req |-> r, ev |-> "navigateerror", entry |-> 0,
                                member |-> TRUE])
         /\ err' = [err EXCEPT ![r] = IF o \in Throwing THEN Thrown(o) ELSE @]
         /\ nthrow' = IF o \in Throwing THEN nthrow + 1 ELSE nthrow
    /\ pc' = [pc EXCEPT ![r] = "finally"]
    /\ UNCHANGED << transitionInProgressCount, navigatorVars, requestVars,
                    activeTransition, inProgressAbortController, promises,
                    captured, result, snap, aborted, finished, subVars, sync,
                    disposeCount, atStart >>

\* the finally block of #transition at await this.#dispose(): the loop of
\* #dispose from its top; a dispose listener that throws replaces the
\* outcome and skips the rest of the block
finallyDispose(r) ==
    /\ pc[r] \in {"finally", "finally.dispose@navigator"}
    /\ sync = 0
    /\ appHistoryStep
    /\ \E o \in {"ok"} \cup Throwing :
         /\ dispose(r, o)
         /\ pc' = [pc EXCEPT ![r] =
                     IF o \in Throwing THEN "threw"
                     ELSE IF Unreachable = << >> THEN "cleanup"
                     ELSE "finally.dispose"]
         /\ err' = [err EXCEPT ![r] = IF o \in Throwing THEN Thrown(o) ELSE @]
    /\ UNCHANGED << transitionInProgressCount, entries, known, currentIndex,
                    mutations, requestVars, activeTransition,
                    inProgressAbortController, promises, captured, result, snap,
                    aborted, finished, subVars, sync, atStart >>

\* the dispose event of the entry just deleted, at the navigator
finallyDisposeNavigator(r) ==
    /\ pc[r] = "finally.dispose"
    /\ sync = 0
    /\ appHistoryStep
    /\ \E o \in {"ok"} \cup Throwing :
         /\ disposeAtNavigator(r, o)
         /\ pc' = [pc EXCEPT ![r] =
                     IF o \in Throwing THEN "threw" ELSE "finally.dispose@navigator"]
         /\ err' = [err EXCEPT ![r] = IF o \in Throwing THEN Thrown(o) ELSE @]
    /\ UNCHANGED << transitionInProgressCount, entries, known, currentIndex,
                    mutations, requestVars, activeTransition,
                    inProgressAbortController, promises, captured, result, snap,
                    aborted, finished, subVars, sync, atStart >>

\* #transition is over: what only its coroutine could still read is
\* forgotten.  The snapshot of its rollback stays with the transition object
\* when AppHistory.transition has exposed it.
forget(r) ==
    /\ log' = << >>
    /\ promises' = [promises EXCEPT ![r] = << >>]
    /\ captured' = [captured EXCEPT ![r] = << >>]
    /\ result' = [result EXCEPT ![r] = NoResult]
    /\ snap' = [snap EXCEPT ![r] = IF r \in transitions THEN @ ELSE NoSnapshot]
    /\ subs' = [s \in Subs |-> IF s <= nsub THEN "detached" ELSE subs[s]]
    /\ reqs' = [reqs EXCEPT ![r].options = NoOptions, ![r].type = "done"]
    /\ heap' = [h \in 0..MaxReq |->
                  IF \/ h = known
                     \/ \E q \in Reqs : snap'[q] # NoSnapshot /\ snap'[q].known = h
                     \/ \E q \in Reqs : reqs'[q].options.has /\ reqs'[q].options.known = h
                  THEN heap[h] ELSE << >>]
    /\ atStart' = NoStart

\* the rest of the finally block of #transition
finallyEnd(r) ==
    /\ pc[r] = "cleanup"
    /\ sync = 0
    /\ appHistoryStep
    /\ activeTransition' = IF activeTransition = r THEN 0 ELSE activeTransition
    /\ pc' = [pc EXCEPT ![r] = "returned"]
    /\ forget(r)
    /\ UNCHANGED << transitionInProgressCount, entries, known, currentIndex,
                    mutations, nreq, activePromise, committed, transitions,
                    inProgressAbortController, err, aborted, finished, nsub,
                    nthrow, sync, disposeCount >>

\* #immediateTransition resumes from return await this.#transition(...):
\* its finally block takes the transition off the counter
immediateFinally(r) ==
    /\ pc[r] \in {"returned", "threw"}
    /\ sync = 0
    /\ appHistoryStep
    /\ transitionInProgressCount' = transitionInProgressCount - 1
    /\ pc' = [pc EXCEPT ![r] = "settling"]
    /\ IF pc[r] = "threw"
       THEN forget(r)
       ELSE UNCHANGED << log, promises, captured, result, snap, subs, reqs, heap,
                         atStart >>
    /\ UNCHANGED << entries, known, currentIndex, mutations, nreq, activePromise,
                    committed, transitions, activeTransition,
                    inProgressAbortController, err, aborted, finished, nsub,
                    nthrow, sync, disposeCount >>

\* the finished promise settles with the outcome of #immediateTransition
settle(r) ==
    /\ pc[r] = "settling"
    /\ sync = 0
    /\ appHistoryStep
    /\ finished' = [finished EXCEPT ![r] =
                      IF err[r] = "none" THEN "fulfilled" ELSE "rejected"]
    /\ pc' = [pc EXCEPT ![r] = "done"]
    /\ err' = [err EXCEPT ![r] = "none"]
    /\ UNCHANGED << transitionInProgressCount, navigatorVars, requestVars,
                    activeTransition, inProgressAbortController, promises,
                    captured, result, snap, aborted, quietVars, sync, log,
                    disposeCount, atStart >>

\* ------------------------------------------------- promises of callers ---
\* a promise handed to transitionWhile is fulfilled or rejected by its owner
settlePromise(s, how) ==
    /\ appHistoryStep
    /\ sync = 0
    /\ subs[s] = "pending"
    /\ subs' = [subs EXCEPT ![s] = how]
    /\ UNCHANGED << transitionInProgressCount, navigatorVars, requestVars,
                    activeTransition, inProgressAbortController, pc, err,
                    promises, captured, result, snap, aborted, finished, nsub,
                    sync, log, nthrow, disposeCount, atStart >>

WhileEvents == {"navigatefrom", "navigate", "navigateto", "finish", "navigatesuccess"}

\* transitionWhile called by a listener that kept it, after its notification
\* returned and before the transition settles
transitionWhile(r) ==
    /\ pc[r] \notin {"none", "queued", "entered", "perf", "created", "done"}
    /\ sync = 0
    /\ appHistoryStep
    /\ \E i \in 1..Len(log) : log[i].req = r /\ log[i].ev \in WhileEvents
    /\ ~transitionWhileThrows(r)
    /\ nsub < MaxSubs
    /\ nsub' = nsub + 1
    /\ subs' = [subs EXCEPT ![nsub + 1] = "pending"]
    /\ promises' = [promises EXCEPT ![r] = Append(@, nsub + 1)]
    /\ UNCHANGED << transitionInProgressCount, navigatorVars, requestVars,
                    activeTransition, inProgressAbortController, pc, err,
                    captured, result, snap, aborted, finished, sync, log,
                    nthrow, disposeCount, atStart >>

\* ------------------------------------------------------ specification ---
Call ==
    \/ \E replace \in BOOLEAN : navigate(Urls[nreq + 1], replace)
    \/ back
    \/ forward
    \/ \E key \in Reqs : goTo(key)
    \/ reload
    \/ updateCurrent
    \/ \E q \in Reqs : rollback(q)
    \/ invalidCall

Run ==
    \E r \in Reqs :
        \/ startTransition(r)
        \/ immediateTransition(r)
        \/ transitionBegin(r)
        \/ navigatefrom(r)
        \/ navigateEvent(r)
        \/ commitEntries(r)
        \/ navigateto(r)
        \/ disposeAfterCommit(r)
        \/ disposeAfterCommitNavigator(r)
        \/ collectPromises(r)
        \/ afterMicrotask(r)
        \/ promisesSettled(r)
        \/ finishEvent(r)
        \/ navigatesuccess(r)
        \/ collectMore(r)
        \/ catchError(r)
        \/ navigateerror(r)
        \/ finallyDispose(r)
        \/ finallyDisposeNavigator(r)
        \/ finallyEnd(r)
        \/ immediateFinally(r)
        \/ settle(r)

Caller ==
    \/ \E s \in Subs, how \in {"fulfilled", "rejected"} : settlePromise(s, how)
    \/ \E r \in Reqs : transitionWhile(r)

Next == Call \/ Run \/ Caller

Spec == Init /\ [][Next]_vars

\* ------------------------------------------- after an interrupted sweep ---
\* the instance after navigate('/a'), navigate('/b') and a rollback, by a
\* holder of the first transition, to the empty list it started from, when
\* the dispose listener of the first entry threw: #dispose had deleted that
\* entry and left the loop (lines 447-452) with the second entry in #known,
\* whose key no entry of entries has.  The settled requests are written as
\* one, request 1, whose entry is the one left in #known.
InitUnswept ==
    /\ transitionInProgressCount = 0
    /\ entries = << >>
    /\ known = 1
    /\ heap = [h \in 0..MaxReq |-> IF h = 1 THEN << 1 >> ELSE << >>]
    /\ currentIndex = -1
    /\ activePromise = 1
    /\ activeTransition = 0
    /\ inProgressAbortController = 1
    /\ nreq = 1
    /\ reqs = [r \in Reqs |->
                IF r = 1 THEN [NoRequest EXCEPT !.type = "done", !.key = 1,
                                                !.url = "/b",
                                                !.sameDocument = TRUE]
                ELSE NoRequest]
    /\ pc = [r \in Reqs |-> IF r = 1 THEN "done" ELSE "none"]
    /\ err = [r \in Reqs |-> "none"]
    /\ promises = [r \in Reqs |-> << >>]
    /\ captured = [r \in Reqs |-> << >>]
    /\ result = [r \in Reqs |-> NoResult]
    /\ snap = [r \in Reqs |-> NoSnapshot]
    /\ transitions = {}
    /\ aborted = [r \in Reqs |-> FALSE]
    /\ finished = [r \in Reqs |-> IF r = 1 THEN "rejected" ELSE "none"]
    /\ committed = [r \in Reqs |-> IF r = 1 THEN "fulfilled" ELSE "none"]
    /\ nsub = 0
    /\ subs = [s \in Subs |-> "none"]
    /\ sync = 0
    /\ log = << >>
    /\ nthrow = MaxThrows
    /\ mutations = << 1 >>
    /\ disposeCount = [e \in Reqs |-> 0]
    /\ atStart = NoStart
    /\ awaiter = NoAwaiter
    /\ nt = NotConstructed

\* the calls of navigate that follow
CallUnswept == \E replace \in BOOLEAN : navigate(Urls[nreq + 1], replace)

NextUnswept == CallUnswept \/ Run \/ Caller

SpecUnswept == InitUnswept /\ [][NextUnswept]_vars

\* ------------------------------------ promises of the instance itself ---
\* what the steps of a caller that holds a promise or an object of the
\* instance leave alone
callerVars == << transitionInProgressCount, navigatorVars, requestVars,
                 activeTransition, inProgressAbortController, pc, err, captured,
                 result, snap, aborted, finished, sync, log, nthrow,
                 disposeCount, atStart >>

\* the finished promise of request q is the link chained on the finished
\* promise of request r, and its callback has not run
chainedBehind(q, r) == pc[q] = "queued" /\ reqs[q].after = r

\* a listener of request r has been given transitionWhile, and the
\* transition has not settled
listenerOf(r) ==
    /\ pc[r] \notin {"none", "queued", "entered", "perf", "created", "done"}
    /\ \E i \in 1..Len(log) : log[i].req = r /\ log[i].ev \in WhileEvents

\* updateCurrent() called by a listener of the transition in progress
updateCurrentByListener ==
    /\ \E r \in Reqs : listenerOf(r)
    /\ updateCurrent

\* transitionWhile(finished), called by a listener of request r with the
\* finished promise of an updateCurrent() made during the transition
transitionWhileFinished(r) ==
    /\ nt = NotConstructed /\ UNCHANGED << nt, awaiter >>
    /\ sync = 0
    /\ listenerOf(r)
    /\ \E q \in Reqs : chainedBehind(q, r) /\ Type(q) = "UpdateCurrent"
    /\ ~transitionWhileThrows(r)
    /\ nsub < MaxSubs
    /\ nsub' = nsub + 1
    /\ subs' = [subs EXCEPT ![nsub + 1] = "queued"]
    /\ promises' = [promises EXCEPT ![r] = Append(@, nsub + 1)]
    /\ UNCHANGED callerVars

\* the loop of the function #createActiveThen returns, from its test to its
\* await, or to the call of resolve when the test fails
activeThenLoop ==
    IF activePromise = 0 THEN [pc |-> "resolved", on |-> 0]
    ELSE [pc |-> "awaiting", on |-> activePromise]

\* await transition: the then of a transition object that
\* AppHistory.transition has exposed is called, during the transition or
\* after it; the function reads #activePromise alone
activeThen(r) ==
    /\ nt = NotConstructed /\ UNCHANGED nt
    /\ sync = 0
    /\ r \in transitions
    /\ awaiter.pc = "none"
    /\ awaiter' = activeThenLoop
    /\ UNCHANGED << callerVars, promises, subVars >>

\* the promise the loop awaits has settled: the loop tests #activePromise
\* again, or the rejection leaves the function and neither resolve nor
\* reject is called
activeThenAwaited ==
    /\ nt = NotConstructed /\ UNCHANGED nt
    /\ sync = 0
    /\ awaiter.pc = "awaiting"
    /\ Settled(awaiter.on)
    /\ awaiter' = IF finished[awaiter.on] = "rejected"
                  THEN [pc |-> "threw", on |-> 0]
                  ELSE activeThenLoop
    /\ UNCHANGED << callerVars, promises, subVars >>

\* navigate (the first a push, the later ones with replace) and
\* updateCurrent, the transitions they queue, the promises a listener hands
\* to transitionWhile, its own finished promises among them, and an awaiter
\* of the transition object
CallAwait ==
    \/ navigate(Urls[nreq + 1], nreq > 0)
    \/ updateCurrentByListener

CallerAwait ==
    \/ \E r \in Reqs : transitionWhileFinished(r)
    \/ \E r \in Reqs : activeThen(r)
    \/ activeThenAwaited

NextAwait == CallAwait \/ Run \/ Caller \/ CallerAwait

SpecAwait == Init /\ [][NextAwait]_vars

\* the event loop resumes every coroutine whose awaited promise has settled,
\* and the owner of a promise handed to transitionWhile settles it
Fairness ==
    /\ WF_vars(Run)
    /\ WF_vars(activeThenAwaited)
    /\ WF_vars(\E s \in Subs, how \in {"fulfilled", "rejected"} : settlePromise(s, how))

SpecAwaitFair == SpecAwait /\ Fairness

\* ---------------------------------------------- NavigationTransition ---
\* a step of the NavigationTransition: the AppHistory instance is not used
transitionStep == nreq = 0 /\ UNCHANGED appVars

\* util/deferred: resolve and reject settle the deferred once; a later call
\* changes nothing
settleDeferred(outcome, with) == IF outcome = "pending" THEN with ELSE outcome

\* [NavigationTransitionAbort] without its first statement
neverAlreadyAborted(t) == FALSE

\* if (this.#abortController.signal.aborted) return
alreadyAborted(t) == t.aborted

\* [NavigationTransitionAbort]() up to the return of dispatchEvent, without
\* the abort listener of the constructor
abortSignal(t) ==
    IF alreadyAborted(t) THEN t
    ELSE [t EXCEPT !.aborted = TRUE, !.abortEvents = @ + 1]

\* the last two statements of [NavigationTransitionRejected], and its return:
\* the catch handler of the statusPromise that awaits the body is still to
\* resume
rejectDeferreds(t) ==
    [t EXCEPT !.committed = settleDeferred(@, t.reason),
              !.finished = settleDeferred(@, t.reason),
              !.rejected = "done",
              !.rejectedBy = 0,
              !.status = IF t.rejectedBy = 0 THEN @
                         ELSE [@ EXCEPT ![t.rejectedBy] = "returned"]]

\* [NavigationTransitionRejected] throws "Failed to rollback": the deferreds
\* stay as they are, and the catch handler of the statusPromise that awaits
\* the body is still to resume with that error
failedToRollback(t) ==
    [t EXCEPT !.rejected = "failed",
              !.rejectedBy = 0,
              !.status = IF t.rejectedBy = 0 THEN @
                         ELSE [@ EXCEPT ![t.rejectedBy] = "thrown"]]

\* if (this[NavigationTransitionIsRejected]) return
rejectedGuard(t) == t.isRejected

\* typeof navigationType === "string" || navigationType === Rollback
dispatchesError(type) == type = "push" \/ type = "Rollback"

\* the rejection rolls back whatever the reason is
rollsBackAlways(t) == t.navigationType # "Rollback"

\* navigationType !== Rollback && !(isInvalidStateError(reason) || isAbortError(reason))
rollsBack(t) ==
    t.navigationType # "Rollback" /\ t.reason \notin {"invalid", "abort"}

\* [NavigationTransitionRejected](reason) from its call to its first await,
\* or to its end when it has none; by is the statusPromise whose catch
\* handler made the call (0: the abort or the error listener)
NavigationTransitionRejected(t, reason, by) ==
    IF rejectedGuard(t)
    THEN [t EXCEPT !.status = IF by = 0 THEN @ ELSE [@ EXCEPT ![by] = "returned"]]
    ELSE LET a == abortSignal([t EXCEPT !.isRejected = TRUE,
                                        !.reason = reason,
                                        !.rejectedBy = by,
                                        !.rejections = @ + 1,
                                        !.status = IF by = 0 THEN @
                                                   ELSE [@ EXCEPT ![by] = "rejecting"]])
         IN  IF dispatchesError(a.navigationType)
             THEN [a EXCEPT !.events = Append(@, "navigateerror"),
                            !.rejected = "navigateerror"]
             ELSE rejectDeferreds(a)

\* event-target: the listeners a finish event meets, in the order the
\* constructor added them.  The once-listeners still attached come first;
\* the two listeners that pass every event on to the entry and to the parent
\* follow them and change nothing of the transition.
finishListeners(t) ==
    (IF t.finishOnce THEN << "promise" >> ELSE << >>) \o
    (IF t.finishPropertyOnce THEN << "property" >> ELSE << >>)

\* #onFinishPromise or #onFinishSetProperty, detached as it is called
onFinish(t, l) ==
    IF l = "promise"
    THEN [t EXCEPT !.finishOnce = FALSE, !.finished = settleDeferred(@, "entry")]
    ELSE [t EXCEPT !.finishPropertyOnce = FALSE, !.isFinished = TRUE]

\* [NavigationTransitionFinish]() up to the first await of dispatchEvent:
\* the test of isFinished, and the first listener, which dispatchEvent calls
\* before it awaits.  frame is where the call is left: returned, or with the
\* listeners dispatchEvent has still to call.
NavigationTransitionFinish(t) ==
    IF t.isFinished
    THEN [t |-> t, frame |-> [pc |-> "returned", captured |-> {}, left |-> << >>]]
    ELSE LET ls == finishListeners(t)
             d == [t EXCEPT !.finishEvents = @ + 1]
         IN  [t |-> IF ls = << >> THEN d ELSE onFinish(d, Head(ls)),
              frame |-> [pc |-> "finishing", captured |-> {},
                         left |-> IF ls = << >> THEN << >> ELSE Tail(ls)]]

\* dispatchEvent of the finish event resumes: the next listener it took
\* note of is called, attached still or not; after the last of them the
\* event is passed on, which changes nothing of the transition, and
\* [NavigationTransitionFinish] returns
finishResumed(t, frame) ==
    IF frame.left = << >>
    THEN [t |-> t, frame |-> [frame EXCEPT !.pc = "returned"]]
    ELSE [t |-> onFinish(t, Head(frame.left)),
          frame |-> IF Tail(frame.left) = << >>
                    THEN [frame EXCEPT !.pc = "returned", !.left = << >>]
                    ELSE [frame EXCEPT !.left = Tail(@)]]

\* new NavigationTransition(init)
construct(type) ==
    /\ ~Constructed
    /\ transitionStep
    /\ nt' = NewTransition(type)

\* [NavigationTransitionWhile](promise)
NavigationTransitionWhile ==
    /\ Constructed
    /\ nt.nwhile < MaxWhile
    /\ transitionStep
    /\ nt' = [nt EXCEPT !.isOngoing = TRUE,
                        !.nwhile = @ + 1,
                        !.status = [@ EXCEPT ![nt.nwhile + 1] = "pending"],
                        !.promises = @ \cup {nt.nwhile + 1}]

\* the promise handed to [NavigationTransitionWhile] settles: the then
\* handler of its statusPromise runs, or its catch handler up to the await
\* of [NavigationTransitionRejected], which is left at its own first await
\* or has returned
promiseSettled(s, how) ==
    /\ nt.status[s] = "pending"
    /\ transitionStep
    /\ nt' = IF how = "fulfilled"
             THEN [nt EXCEPT !.status = [@ EXCEPT ![s] = "fulfilled"]]
             ELSE NavigationTransitionRejected(nt, how, s)

\* the catch handler of a statusPromise resumes after
\* await this[NavigationTransitionRejected](reason): it returns the status
\* "rejected" and the statusPromise fulfils with it, or the error the body
\* threw leaves the handler and the statusPromise rejects
statusSettled(s) ==
    /\ nt.status[s] \in {"returned", "thrown"}
    /\ transitionStep
    /\ nt' = [nt EXCEPT !.status =
                 [@ EXCEPT ![s] = IF @ = "returned" THEN "rejected" ELSE "threw"]]

\* [NavigationTransitionAbort]() and the abort listener of the constructor,
\* which runs when the abort event is dispatched
NavigationTransitionAbort ==
    /\ Constructed
    /\ transitionStep
    /\ LET a == abortSignal(nt)
       IN  nt' = IF a.abortEvents = nt.abortEvents \/ nt.isFinished THEN a
                 ELSE NavigationTransitionRejected(a, "abort", 0)

\* the commit event is dispatched: #onCommitPromise, the first listener,
\* is called before dispatchEvent awaits
commitEvent ==
    /\ Constructed
    /\ nt.commitOnce
    /\ transitionStep
    /\ nt' = [nt EXCEPT !.commitOnce = FALSE,
                        !.committed = IF nt.aborted THEN @
                                      ELSE settleDeferred(@, "entry")]

\* dispatchEvent of the commit event resumes and calls #onCommitSetProperty;
\* a commit event dispatched meanwhile meets the same listener first
onCommitSetProperty ==
    /\ ~nt.commitOnce /\ nt.commitPropertyOnce
    /\ transitionStep
    /\ nt' = [nt EXCEPT !.commitPropertyOnce = FALSE, !.isCommitted = TRUE]

\* the error event reaches #onError
errorEvent(reason) ==
    /\ Constructed
    /\ nt.errorOnce
    /\ transitionStep
    /\ nt' = NavigationTransitionRejected([nt EXCEPT !.errorOnce = FALSE],
                                          reason, 0)

\* [NavigationTransitionRejected](reason) called by a holder of the
\* transition, up to its first await
rejectedCalled(reason) ==
    /\ Constructed
    /\ nt.nheld < MaxHeld
    /\ transitionStep
    /\ nt' = [NavigationTransitionRejected(nt, reason, 0) EXCEPT !.nheld = @ + 1]

\* transition.rollback() called by a holder of the transition: it calls
\* options.rollback and returns its result
transitionRollback ==
    /\ Constructed
    /\ nt.nheld < MaxHeld
    /\ ~nt.rolledBack
    /\ transitionStep
    /\ nt' = [nt EXCEPT !.nheld = @ + 1,
                        !.rolledBack = TRUE,
                        !.rollbackFinished = "pending",
                        !.events = Append(@, "rollback")]

\* [NavigationTransitionRejected] after the navigateerror dispatch
rejectedRollback ==
    /\ nt.rejected = "navigateerror"
    /\ transitionStep
    /\ nt' = IF ~rollsBack(nt) THEN rejectDeferreds(nt)
             ELSE IF nt.rolledBack THEN failedToRollback(nt)
             ELSE [nt EXCEPT !.rolledBack = TRUE,
                             !.rollbackFinished = "pending",
                             !.events = Append(@, "rollback"),
                             !.rejected = "rollback"]

\* the finished promise of the rollback settles
rollbackSettled(how) ==
    /\ nt.rollbackFinished = "pending"
    /\ transitionStep
    /\ nt' = [nt EXCEPT !.rollbackFinished = how,
                        !.events = IF how = "fulfilled"
                                   THEN Append(@, "rolledback") ELSE @]

\* [NavigationTransitionRejected] after await this.rollback()?.finished
rejectedAfterRollback ==
    /\ nt.rejected = "rollback"
    /\ nt.rollbackFinished \in {"fulfilled", "rejected"}
    /\ transitionStep
    /\ nt' = IF nt.rollbackFinished = "fulfilled" THEN rejectDeferreds(nt)
             ELSE failedToRollback(nt)

\* the calls of [NavigationTransitionWait] that have not returned
Waiting == Cardinality({ w \in Waits : nt.wait[w].pc \notin {"none", "returned"} })

\* await this[NavigationTransitionFinish]() in the finally block of
\* [NavigationTransitionWait]: once the call it awaits has returned, the
\* block is still to resume
awaitFinish(frame) ==
    IF frame.pc = "returned" THEN [frame EXCEPT !.pc = "returning"] ELSE frame

\* [NavigationTransitionWait]() called by a holder of the transition, up to
\* await Promise.all(captured)
NavigationTransitionWait ==
    /\ Constructed
    /\ nt.nwait < MaxWait
    /\ Waiting < MaxWaiting
    /\ transitionStep
    /\ nt' = [nt EXCEPT !.nwait = @ + 1,
                        !.wait = [@ EXCEPT ![nt.nwait + 1] =
                                     IF nt.promises = {}
                                     THEN [NoFrame EXCEPT !.pc = "returned"]
                                     ELSE [NoFrame EXCEPT !.pc = "awaiting",
                                             !.captured = nt.promises]]]

\* Promise.all(captured) has settled
allSettled(t, w) ==
    \/ \E s \in t.wait[w].captured : t.status[s] = "threw"
    \/ \A s \in t.wait[w].captured : t.status[s] \in {"fulfilled", "rejected"}

\* [NavigationTransitionPromiseResolved](...captured)
NavigationTransitionPromiseResolved(t, capturedPromises) ==
    [t EXCEPT !.promises = @ \ capturedPromises]

\* [NavigationTransitionWait] from the results of Promise.all on: the catch
\* block up to its awaits, which come before the finally block; or the
\* removal of the captured promises, the nested call whose promise is returned
\* if some are pending still, and the finally block up to the await inside
\* [NavigationTransitionFinish], reached with no await before it
waitSettled(w) ==
    /\ nt.wait[w].pc = "awaiting"
    /\ allSettled(nt, w)
    /\ transitionStep
    /\ LET frame == nt.wait[w]
           failed == \E s \in frame.captured : nt.status[s] \in {"threw", "rejected"}
           resolved == NavigationTransitionPromiseResolved(nt, frame.captured)
           f == NavigationTransitionFinish(resolved)
       IN  IF failed
           THEN nt' = [NavigationTransitionRejected(nt, "app", 0)
                         EXCEPT !.wait = [@ EXCEPT ![w] = [NoFrame EXCEPT !.pc = "finally"]]]
           ELSE IF resolved.promises = {}
           THEN nt' = [f.t EXCEPT !.wait = [@ EXCEPT ![w] = awaitFinish(f.frame)]]
           ELSE /\ nt.nwait < MaxWait
                /\ nt' = [f.t EXCEPT
                            !.nwait = @ + 1,
                            !.wait = [@ EXCEPT
                                        ![w] = awaitFinish(f.frame),
                                        ![nt.nwait + 1] =
                                            [NoFrame EXCEPT !.pc = "awaiting",
                                               !.captured = resolved.promises]]]

\* the finally block of [NavigationTransitionWait] after the catch block, up
\* to the await inside [NavigationTransitionFinish]
waitFinally(w) ==
    /\ nt.wait[w].pc = "finally"
    /\ transitionStep
    /\ LET f == NavigationTransitionFinish(nt)
       IN  nt' = [f.t EXCEPT !.wait = [@ EXCEPT ![w] = awaitFinish(f.frame)]]

\* the finish event dispatched by [NavigationTransitionWait] goes on to its
\* next listener, or the call returns
waitFinishing(w) ==
    /\ nt.wait[w].pc = "finishing"
    /\ transitionStep
    /\ LET f == finishResumed(nt, nt.wait[w])
       IN  nt' = [f.t EXCEPT !.wait = [@ EXCEPT ![w] = awaitFinish(f.frame)]]

\* the finally block of [NavigationTransitionWait] resumes after
\* await this[NavigationTransitionFinish](), and the call returns
waitReturned(w) ==
    /\ nt.wait[w].pc = "returning"
    /\ transitionStep
    /\ nt' = [nt EXCEPT !.wait = [@ EXCEPT ![w] = [@ EXCEPT !.pc = "returned"]]]

\* [NavigationTransitionFinish]() called by a holder of the transition
finishCalled ==
    /\ Constructed
    /\ nt.nheld < MaxHeld
    /\ transitionStep
    /\ LET f == NavigationTransitionFinish(nt)
       IN  nt' = [f.t EXCEPT !.nheld = @ + 1, !.finishCall = f.frame]

\* the finish event dispatched by that call goes on to its next listener, or
\* the call returns
finishCallFinishing ==
    /\ nt.finishCall.pc = "finishing"
    /\ transitionStep
    /\ LET f == finishResumed(nt, nt.finishCall)
       IN  nt' = [f.t EXCEPT !.finishCall = f.frame]

\* [NavigationTransitionPromiseResolved](promise) called by a holder of the
\* transition with one of the promises of #promises
promiseResolved(s) ==
    /\ nt.nheld < MaxHeld
    /\ s \in nt.promises
    /\ transitionStep
    /\ nt' = [NavigationTransitionPromiseResolved(nt, {s}) EXCEPT !.nheld = @ + 1]

NextNT ==
    \/ \E type \in TransitionTypes : construct(type)
    \/ NavigationTransitionWhile
    \/ \E s \in Whiles, how \in {"fulfilled"} \cup Reasons : promiseSettled(s, how)
    \/ \E s \in Whiles : statusSettled(s)
    \/ NavigationTransitionAbort
    \/ commitEvent
    \/ onCommitSetProperty
    \/ \E reason \in Reasons : errorEvent(reason)
    \/ \E reason \in Reasons : rejectedCalled(reason)
    \/ transitionRollback
    \/ rejectedRollback
    \/ \E how \in {"fulfilled", "rejected"} : rollbackSettled(how)
    \/ rejectedAfterRollback
    \/ NavigationTransitionWait
    \/ \E w \in Waits : waitSettled(w)
    \/ \E w \in Waits : waitFinally(w)
    \/ \E w \in Waits : waitFinishing(w)
    \/ \E w \in Waits : waitReturned(w)
    \/ finishCalled
    \/ finishCallFinishing
    \/ \E s \in Whiles : promiseResolved(s)

SpecNT == Init /\ [][NextNT]_vars

NextBoth == Next \/ NextNT

SpecBoth == Init /\ [][NextBoth]_vars


\* ------------------------------------------------------------- claims ---
\* the request whose transition is between the start of #immediateTransition
\* and the settlement of its finished promise
Executing(r) == pc[r] \notin {"none", "queued", "skipped", "done"}

\* the transition has passed the statement that created its AbortController
HasController(r) == Executing(r) /\ pc[r] \notin {"entered", "perf"}

IsPrefix(a, b) == Len(a) <= Len(b) /\ \A i \in 1..Len(a) : a[i] = b[i]

\* C1: the in-flight counter is 0 or 1 in every reachable state, and no
\* request is rejected with "Unexpected multiple transitions".
C1_CounterAtMostOne ==
    /\ transitionInProgressCount \in {0, 1}
    /\ \A r \in Reqs : err[r] # "multiple"

\* a transition executes while a request accepted after it waits in the chain
C1_Witness ==
    /\ transitionInProgressCount = 1
    /\ \E r \in Reqs : Executing(r) /\ r < MaxReq /\ pc[r + 1] = "queued"

\* C2: the protocol of request r + 1 starts only once the finished promise
\* of request r has settled, and the mutations of the entry list are applied
\* in the order the requests were accepted.
C2_StartsAfterPredecessorSettled ==
    /\ \A r \in Reqs : r > 1 /\ pc[r] \notin {"none", "queued"} => Settled(r - 1)
    /\ \A i, j \in 1..Len(mutations) : i < j => mutations[i] < mutations[j]

\* two requests in a row have mutated the list, the second while a third waits
C2_Witness ==
    \E r \in Reqs :
        /\ r > 1 /\ r < MaxReq
        /\ (r - 1) \in Range(mutations) /\ r \in Range(mutations)
        /\ Executing(r) /\ pc[r + 1] = "queued"

\* C3: when no transition is executing, either entries is empty and
\* currentIndex is -1, or currentIndex is a position of entries.
C3_IndexValidWhenIdle ==
    transitionInProgressCount = 0 =>
        \/ entries = << >> /\ currentIndex = -1
        \/ currentIndex \in 0..(Len(entries) - 1)

\* idle, with several entries, after a transition that failed
C3_Witness ==
    /\ transitionInProgressCount = 0
    /\ Len(entries) >= 2
    /\ \E r \in Reqs : finished[r] = "rejected" /\ r \in Range(mutations)

\* C4: a push, replace, traverse or reload that fails with an application
\* error leaves entries, currentIndex and known as they were when it started
\* executing (stated at the point where its finished promise is about to
\* reject, after the catch block and #dispose have run).
C4_RollbackRestoresSnapshot ==
    \A r \in Reqs :
        pc[r] = "cleanup" /\ err[r] = "app" /\ IsString(Type(r)) =>
            /\ entries = atStart.entries
            /\ currentIndex = atStart.index
            /\ heap[known] = atStart.known

\* C5: a step that accepts a request aborts no signal when the request is an
\* updateCurrent; when it is of another kind, the signal of every transition
\* that is executing is aborted as the step ends.
C5_InFlightAborted ==
    [][nreq' = nreq + 1 =>
         LET t == reqs'[nreq'].type
         IN  /\ t = "UpdateCurrent" => aborted' = aborted
             /\ t # "UpdateCurrent" =>
                    \A q \in Reqs : Executing(q) => aborted'[q]]_vars

\* C6: whatever the outcome of the request it is chained on, a queued
\* request leaves the queue by entering #immediateTransition with the counter
\* at 1, no error and its finished promise pending.
C6_FailureDoesNotPoison ==
    [][\A r \in Reqs :
         pc[r] = "queued" /\ pc'[r] # "queued" =>
             /\ pc'[r] = "entered"
             /\ transitionInProgressCount' = 1
             /\ err'[r] = "none"
             /\ finished'[r] = "pending"]_vars

\* a request chained on a rejected one has run its protocol and fulfilled
C6_Witness ==
    \E r \in Reqs :
        /\ r > 1 /\ reqs[r].after = r - 1
        /\ finished[r - 1] = "rejected"
        /\ finished[r] = "fulfilled"
        /\ r \in Range(mutations)

\* C7: with no previous entry back accepts nothing, with no next entry
\* forward accepts nothing, with no entry of the key goTo accepts nothing,
\* with no current entry reload accepts nothing, and #pushEntry refuses every
\* entry of entries; what is possible instead is the throw, a step that
\* changes no variable.
C7_PreconditionViolationsThrow ==
    /\ EntryAt(currentIndex - 1) = 0 =>
          ~ENABLED back /\ (sync = 0 => ENABLED throwInvalidState("back", 0))
    /\ EntryAt(currentIndex + 1) = 0 =>
          ~ENABLED forward /\ (sync = 0 => ENABLED throwInvalidState("forward", 0))
    /\ \A key \in Reqs :
          key \notin Keys(entries) =>
              ~ENABLED goTo(key) /\ (sync = 0 => ENABLED throwInvalidState("goTo", key))
    /\ EntryAt(currentIndex) = 0 =>
          ~ENABLED reload /\ (sync = 0 => ENABLED throwInvalidState("reload", 0))
    /\ \A i \in 1..Len(entries) : pushEntryThrows(entries[i])

\* the current entry is the last of several and a call could be made:
\* forward throws while back is accepted
C7_Witness ==
    /\ CallableAny
    /\ Len(entries) >= 2 /\ currentIndex = Len(entries) - 1
    /\ Throws("forward", 0) /\ ENABLED back

\* C8: the committed promise of a request is resolved only once the
\* request has applied its mutation of the entry list.
C8_CommittedAfterMutation ==
    \A r \in Reqs : committed[r] = "fulfilled" => r \in Range(mutations)

\* what the log of the transition in progress is compared with
ProtocolEvents == {"navigatefrom", "navigate", "mutate", "currentchange",
                   "navigateto", "finish", "navigatesuccess"}

Observed(r) ==
    LET mine == SelectSeq(log, LAMBDA x : x.req = r /\ x.ev \in ProtocolEvents)
    IN  [i \in 1..Len(mine) |-> << mine[i].ev, mine[i].entry >>]

Expected(r) ==
    (IF snap[r].current # 0 THEN << << "navigatefrom", snap[r].current >> >>
     ELSE << >>)
    \o << << "navigate", 0 >>, << "mutate", r >>, << "currentchange", 0 >>,
          << "navigateto", r >>, << "finish", r >>, << "navigatesuccess", 0 >> >>

\* C9: the notifications of a push, replace, traverse or reload of a
\* same-document entry come in the order navigatefrom (at the entry that was
\* current), navigate, the mutation, currentchange, navigateto (at the new
\* entry), finish, navigatesuccess, each once; a successful transition has
\* delivered them all, and the record of the transition in progress holds
\* nothing of another transition.
C9_NotificationOrder ==
    \A r \in Reqs :
        Executing(r) /\ IsString(Type(r)) /\ reqs[r].sameDocument =>
            /\ IsPrefix(Observed(r), Expected(r))
            /\ pc[r] = "cleanup" /\ err[r] = "none" => Observed(r) = Expected(r)
            /\ \A i \in 1..Len(log) : log[i].req = r

\* a traverse away from a current entry succeeded: all seven were delivered
C9_Witness ==
    \E r \in Reqs :
        /\ Type(r) = "traverse" /\ pc[r] = "cleanup" /\ err[r] = "none"
        /\ Len(Observed(r)) = Len(Expected(r))
        /\ snap[r].current # 0

\* C10: no dispose notification is dispatched for an entry that is a
\* member of entries when it is dispatched.
C10_NoDisposeOfMember ==
    \A i \in 1..Len(log) :
        log[i].ev \in {"dispose", "dispose@navigator"} => ~log[i].member

\* an entry was disposed of while entries holds others
C10_Witness ==
    /\ entries # << >>
    /\ \E i \in 1..Len(log) : log[i].ev = "dispose" /\ log[i].entry \notin Range(entries)


\* C11: over the life of the instance every entry receives the dispose
\* notification at most once.
C11_DisposedAtMostOnce ==
    \A e \in Reqs : disposeCount[e] <= 1


\* C12: when a transition settles, every known entry whose key no entry of
\* entries carries any more has been removed from known and has received a
\* dispose notification (the claim read by key, as the sweep compares: an
\* original whose clone carries its key counts as in use).
C12_NonMembersDisposed ==
    [][\A r \in Reqs :
         pc[r] # "done" /\ pc'[r] = "done" =>
             \A e \in Range(heap[known]') \cup Range(atStart.known) :
                 reqs'[e].key \notin { reqs'[entries'[i]].key : i \in 1..Len(entries') } =>
                     /\ e \notin Range(heap[known]')
                     /\ disposeCount'[e] >= 1]_vars

\* C13: a step adds to the promises of a transition only while its signal
\* is not aborted, and then adds exactly the one promise handed in; with the
\* signal aborted no step adds anything.
C13_WhileAfterAbortAddsNothing ==
    [][\A r \in Reqs :
         promises'[r] # promises[r] /\ promises'[r] # << >> =>
             /\ ~aborted[r]
             /\ promises'[r] = Append(promises[r], nsub + 1)
             /\ nsub' = nsub + 1
             /\ subs'[nsub + 1] = "pending"]_vars

\* the signal of a transition is aborted after it was handed a promise
C13_Witness ==
    \E r \in Reqs :
        /\ Executing(r) /\ aborted[r]
        /\ promises[r] # << >> \/ captured[r] # << >>

\* C15: a transition about to fulfil its finished promise has no promise
\* left that was handed to transitionWhile and is not settled.
C15_FinishedAfterEverySubOperation ==
    \A r \in Reqs :
        pc[r] = "cleanup" /\ err[r] = "none" =>
            /\ promises[r] = << >>
            /\ \A s \in Subs : subs[s] # "pending"

\* C17: a push, replace, traverse or reload about to reject its finished
\* promise has dispatched exactly one navigateerror.
C17_OneNavigateErrorPerRejection ==
    \A r \in Reqs :
        pc[r] = "cleanup" /\ err[r] # "none" /\ IsString(Type(r)) =>
            Cardinality({ i \in 1..Len(log) :
                            log[i].req = r /\ log[i].ev = "navigateerror" }) = 1


\* number of times event e was dispatched by the NavigationTransition
Dispatched(e) == Cardinality({ i \in 1..Len(nt.events) : nt.events[i] = e })
\* the engine, not a holder of the transition, called transition.rollback()
RollbackByRejection == nt.rejected \in {"rollback", "failed"}
\* the catch block of request r has called rollbackImmediately
RolledBackImmediately(r) ==
    \E i \in 1..Len(log) : log[i].req = r /\ log[i].ev = "rollbackImmediately"

\* C14: once a NavigationTransition is aborted or rejected, no step adds a
\* promise to its pending set or changes its ongoing flag.
C14_NoRegistrationOnceRejected ==
    [][Constructed /\ (nt.aborted \/ nt.isRejected) =>
          /\ nt'.promises \subseteq nt.promises
          /\ nt'.isOngoing = nt.isOngoing]_vars

\* [NavigationTransitionFinish] was called by [NavigationTransitionWait]
\* alone, never by a holder of the transition
NoFinishCall == nt.finishCall.pc = "none"

\* C16: the step of NavigationTransitionWait that dispatches finish finds no
\* promise in the pending set that is not settled.
C16_FinishWhenNothingPending ==
    [][NoFinishCall' /\ nt'.finishEvents > nt.finishEvents =>
          \A s \in nt.promises : nt.status[s] # "pending"]_vars

\* C18: the rejection body of a NavigationTransition runs at most once,
\* navigateerror is dispatched at most once, an outcome of committed or
\* finished, once taken, never changes, and when the rejection has run to its
\* end both have taken one.
C18_SettlesOnce ==
    [][/\ nt'.rejections <= 1
       /\ Dispatched("navigateerror")' <= 1
       /\ nt.committed # "pending" => nt'.committed = nt.committed
       /\ nt.finished # "pending" => nt'.finished = nt.finished
       /\ nt'.rejected \in {"done", "failed"} =>
              nt'.committed # "pending" /\ nt'.finished # "pending"]_vars

\* C19: when a push, replace, traverse or reload NavigationTransition is
\* rejected with an application error, navigateerror is dispatched only
\* after the rollback was invoked and has completed.
C19_RollbackBeforeNavigateError ==
    nt.navigationType = "push" /\ nt.reason = "app" =>
        \A i \in 1..Len(nt.events) :
            nt.events[i] = "navigateerror" =>
                \E j, k \in 1..(i - 1) :
                    j < k /\ nt.events[j] = "rollback" /\ nt.events[k] = "rolledback"

\* C20 as stated: in AppHistory and in NavigationTransition the rejection
\* calls the rollback only if the type is not Rollback and the reason is
\* neither an InvalidStateError nor an AbortError.
C20_NoRollbackOnAbortError ==
    /\ \A r \in Reqs :
           pc[r] = "rollback" /\ RolledBackImmediately(r) =>
               Type(r) # "Rollback" /\ err[r] \notin {"invalid", "abort"}
    /\ RollbackByRejection =>
           nt.navigationType # "Rollback" /\ nt.reason \notin {"invalid", "abort"}

\* C20 amended: the catch block of AppHistory calls the rollback only if the
\* type is a string and the reason is not an InvalidStateError; the
\* rejection of a NavigationTransition calls it only if the type is a string
\* and the reason is neither an InvalidStateError nor an AbortError.
C20_RollbackPolicy ==
    /\ \A r \in Reqs :
           pc[r] = "rollback" /\ RolledBackImmediately(r) =>
               IsString(Type(r)) /\ err[r] # "invalid"
    /\ RollbackByRejection =>
           nt.navigationType = "push" /\ nt.reason \notin {"invalid", "abort"}

\* the rejection of a NavigationTransition awaits the rollback it called
C20_Witness ==
    /\ nt.rejected = "rollback"
    /\ nt.reason = "app"
    /\ nt.rollbackFinished = "pending"

\* C21: when a NavigationTransition that is neither finished nor rejected is
\* aborted, it becomes rejected with an AbortError; finished, pending while
\* that rejection runs, is not fulfilled with the entry, and once the
\* rejection has run finished holds the AbortError and committed holds it
\* too unless it was fulfilled before the abort; the abort of a transition
\* that is finished changes neither outcome.  Runs in which a holder calls
\* NavigationTransitionFinish itself are left aside.
C21_AbortRejectsBoth ==
    [][NoFinishCall' =>
       /\ nt.reason = "abort" /\ nt.rejected = "navigateerror"
             /\ nt.finished = "pending" => nt'.finished # "entry"
       /\ nt'.reason = "abort" /\ nt'.rejected = "done" /\ nt.rejected # "done"
             /\ nt.finished = "pending" =>
                 /\ nt'.isRejected
                 /\ nt'.finished = "abort"
                 /\ nt'.committed = IF nt.committed = "pending" THEN "abort"
                                    ELSE nt.committed
       /\ nt.isFinished /\ nt'.abortEvents > nt.abortEvents =>
                 /\ nt'.finished = nt.finished
                 /\ nt'.committed = nt.committed]_vars

\* C22: the abort signal of a NavigationTransition, once aborted, stays
\* aborted, and the abort event is dispatched at most once, in the step that
\* aborts the signal, however many times the abort is asked for.
C22_AbortsOnce ==
    [][/\ nt.aborted => nt'.aborted
       /\ nt'.abortEvents <= 1
       /\ nt'.abortEvents > nt.abortEvents => ~nt.aborted /\ nt'.aborted]_vars

\* the signal is aborted, the rejection with an AbortError has run to its
\* end, and the statusPromise of a rejected promise has settled
C22_Witness ==
    /\ nt.aborted /\ nt.abortEvents = 1
    /\ nt.reason = "abort" /\ nt.rejected = "done"
    /\ \E s \in Whiles : nt.status[s] = "rejected"

\* C23: a NavigationTransition that is rejected and not finished is never
\* marked finished by a later step, in a run in which no holder calls
\* NavigationTransitionFinish itself.
C23_NeverFinishedOnceRejected ==
    [][nt.isRejected /\ ~nt.isFinished /\ NoFinishCall' => ~nt'.isFinished]_vars

\* C24: once the rollback called by the rejection of a NavigationTransition
\* has failed, the finished promise, pending then, is never fulfilled with
\* the entry, in a run in which no holder calls NavigationTransitionFinish
\* itself.
C24_FailedRollbackNeverFulfils ==
    [][nt.rejected = "failed" /\ nt.finished = "pending" /\ NoFinishCall' =>
          nt'.finished # "entry"]_vars

\* the log holds event ev of request r
Logged(r, ev) == \E i \in 1..Len(log) : log[i].req = r /\ log[i].ev = ev
\* the navigate listener of request r threw: navigate was dispatched, the
\* mutation was not reached, and the error is not an InvalidStateError
NavigateListenerThrew(r) ==
    /\ pc[r] = "cleanup" /\ err[r] = "app"
    /\ Logged(r, "navigate") /\ ~Logged(r, "mutate")

\* C25: on an empty AppHistory, when navigate('/a') has run, entries is the
\* one entry with url '/a' and currentIndex is 0; when navigate('/b') and
\* then back() have run, the current entry has url '/a'; when the navigate
\* listener of a further navigate then throws, the current entry still has
\* url '/a' at index 0 and navigateerror was dispatched once.
C25_Scenario ==
    /\ pc[1] = "cleanup" /\ Type(1) = "push" /\ err[1] = "none" =>
            /\ entries = << 1 >> /\ Url(1) = "/a" /\ currentIndex = 0
    /\ /\ pc[3] = "cleanup" /\ Type(3) = "traverse" /\ err[3] = "none"
       /\ atStart.entries = << 1, 2 >> /\ atStart.index = 1
       /\ Url(2) = "/b" /\ Key(3) = 1
       => current # 0 /\ Url(current) = "/a" /\ currentIndex = 0
    /\ /\ NavigateListenerThrew(4) /\ Type(4) \in {"push", "replace"}
       /\ atStart.entries = << 3, 2 >> /\ atStart.index = 0
       /\ Url(2) = "/b" /\ Key(3) = 1
       => /\ current # 0 /\ Url(current) = "/a" /\ currentIndex = 0
          /\ Cardinality({ i \in 1..Len(log) :
                log[i].req = 4 /\ log[i].ev = "navigateerror" }) = 1

\* the fourth request, a navigate after navigate('/a'), navigate('/b') and
\* back(), is about to settle after its navigate listener threw
C25_Witness ==
    /\ NavigateListenerThrew(4) /\ Type(4) = "push"
    /\ \A r \in 1..3 : finished[r] = "fulfilled"
    /\ atStart.entries = << 3, 2 >> /\ atStart.index = 0
    /\ Url(2) = "/b" /\ Key(3) = 1 /\ Url(3) = "/a"

\* C26: whenever a transition of AppHistory has settled and none executes,
\* every entry of known has a key that some entry of entries has.
C26_KnownKeysInEntries ==
    /\ \E r \in Reqs : pc[r] = "done"
    /\ \A r \in Reqs : ~Executing(r)
    => \A e \in Range(heap[known]) : Key(e) \in Keys(entries)

\* the catch block and the finally block, with the steps of its sweep
AfterAbort == {"catch", "finally", "finally.dispose",
               "finally.dispose@navigator", "cleanup"}

\* C27: a transition of AppHistory that finds its abort signal set at one of
\* its two cancellation checks throws an InvalidStateError; from then on it
\* dispatches no navigateerror, entries, currentIndex and known are as they
\* were when it started, the error stays an InvalidStateError, and the
\* finished promise is rejected.
C27_AbortedBeforeMutation ==
    [][\A r \in Reqs :
         /\ aborted[r] /\ pc[r] \in {"created", "navigate"} /\ pc'[r] # pc[r] =>
                pc'[r] = "catch" /\ err'[r] = "invalid"
         /\ /\ aborted[r] /\ err[r] = "invalid" /\ ~Logged(r, "mutate")
            /\ pc[r] \in AfterAbort
            => /\ entries = atStart.entries
               /\ currentIndex = atStart.index
               /\ heap[known] = atStart.known
               /\ ~Logged(r, "navigateerror")
               /\ pc'[r] \in AfterAbort \cup {"returned"}
               /\ err'[r] = "invalid"
         /\ err[r] = "invalid" /\ pc[r] \in {"returned", "settling"} =>
               /\ pc'[r] \in {"returned", "settling", "done"}
               /\ IF pc'[r] = "done" THEN finished'[r] = "rejected"
                  ELSE err'[r] = "invalid"]_vars

\* C28: every accepted request settles and the in-flight counter returns to
\* 0, also when a promise handed to transitionWhile is the finished promise
\* of an updateCurrent() made during the transition.
C28_EveryRequestSettles ==
    /\ \A r \in Reqs : (finished[r] = "pending") ~> (finished[r] # "pending")
    /\ (transitionInProgressCount > 0) ~> (transitionInProgressCount = 0)

\* C29: the then of a transition object that awaits a fulfilled promise
\* while no request is pending calls resolve, unless another request is
\* accepted first.
C29_AwaitTerminates ==
    (/\ awaiter.pc = "awaiting" /\ Pending = 0
     /\ finished[awaiter.on] = "fulfilled") ~>
        (awaiter.pc = "resolved" \/ Pending > 0)

=============================================================================
